---- MODULE Spec2Model ----
(***************************************************************************)
(* A model of sike/impurity.py: class Impurity, the states and transitions *)
(* of one impurity species, its construction pipeline and the P/Q          *)
(* reordering.                                                             *)
(*                                                                         *)
(* Energies are integers.  Energy grid values are integers in units of     *)
(* 1e-6, so the tolerance 1e-5 of the grid check is 10.  Electron          *)
(* densities are in units of 1e19 and frac_imp_dens in units of 0.01, so   *)
(* their product is in units of 1e17.                                      *)
(*                                                                         *)
(* Python values whose type decides a branch (the settings saved by        *)
(* __init__) are records [type, val]: lines 95-108 save most settings as   *)
(* one-element tuples, and truth tests, `is False` and `in` on them are    *)
(* evaluated as Python evaluates them on a tuple.                          *)
(***************************************************************************)
EXTENDS Integers, Sequences, FiniteSets, TLC

\* ---------------------------------------------------------------- bounds
MaxStates == 3      \* levels in the catalog
MaxTrans == 2       \* transitions in the catalog
MaxEnergy == 1      \* level energies are 0..MaxEnergy
NumSamples == 2     \* plasma-profile samples (len(ne))
GridLen == 2        \* points of the energy grid
FracImpDens == 1    \* the frac_imp_dens argument

\* The tolerance of the grid check, 1e-5 in units of 1e-6.
GridTol == 10

VARIABLES
    pc,                  \* the stage construction has reached
    err,                 \* the exception that ended construction, or "none"
    name,                \* self.name
    num_Z,               \* self.num_Z
    state_ids,           \* self.state_ids
    autoionization,      \* self.autoionization
    saha_boltzmann_init, \* self.saha_boltzmann_init
    fixed_fraction_init, \* self.fixed_fraction_init
    states,              \* self.states
    tot_states,          \* self.tot_states
    transitions,         \* self.transitions
    dens,                \* self.dens
    num_P_states,        \* self.num_P_states
    num_Q_states         \* self.num_Q_states

vars == <<pc, err, name, num_Z, state_ids, autoionization, saha_boltzmann_init,
          fixed_fraction_init, states, tot_states, transitions, dens,
          num_P_states, num_Q_states>>

\* ------------------------------------------------------- Python values
PyNone == [type |-> "none", val |-> {}]
PyBool(b) == [type |-> "bool", val |-> b]
PyList(S) == [type |-> "list", val |-> S]
\* (v,): what a trailing comma after an assigned expression builds.
PyTuple1(v) == [type |-> "tuple", val |-> v]

\* bool(x): a one-element tuple is true whatever it holds.
Truthy(x) ==
    IF x.type = "tuple" THEN TRUE
    ELSE IF x.type = "bool" THEN x.val
    ELSE IF x.type = "list" THEN x.val # {}
    ELSE FALSE

\* x is False: only the bool False itself.
IsFalse(x) == x.type = "bool" /\ x.val = FALSE

\* x is not None
IsNotNone(x) == x.type # "none"

\* i in c, for an int i: a list is searched; the one element of a tuple is
\* compared with i, and an int equals neither a list nor None.
PyIn(i, c) ==
    IF c.type = "list" THEN i \in c.val
    ELSE IF c.type = "tuple" THEN c.val.type = "int" /\ c.val.val = i
    ELSE FALSE

\* ------------------------------------------------------------ helpers
Abs(x) == IF x < 0 THEN -x ELSE x

Max(S) == CHOOSE x \in S : \A y \in S : y <= x

\* the null-then-compact removal: the elements at the places `removed`
\* (from 1) are set to None and the list is rebuilt without them
Compact(s, removed) ==
    LET RECURSIVE keep(_)
        keep(i) == IF i > Len(s) THEN <<>>
                   ELSE IF i \in removed THEN keep(i + 1)
                   ELSE <<s[i]>> \o keep(i + 1)
    IN keep(1)

\* get_element_data
nuc_chg_dict == [H |-> 1, He |-> 2]
Names == {"H", "He"}
get_element_data(n) == nuc_chg_dict[n] + 1

\* ------------------------------------------------------------- State
\* State(id=i, **level_dict): ground, iz_energy, energy_from_gs and pos are
\* assigned later; no code reads them before it assigns them.
State(id, Z, energy) ==
    [id |-> id, Z |-> Z, energy |-> energy, ground |-> FALSE,
     iz_energy |-> 0, energy_from_gs |-> 0, pos |-> -1]

\* State.equals: two State objects are the same level.
equals(s, t) == s.id = t.id

\* Transition objects (IzTrans, AiTrans, RRTrans, EmTrans, ExTrans)
Trans(type, from_id, to_id) ==
    [type |-> type, from_id |-> from_id, to_id |-> to_id,
     from_pos |-> -1, to_pos |-> -1]

\* the exceptions raised: numpy's for np.argmin([]) at line 209, and the one
\* of line 337
ArgminError == "ValueError: attempt to get argmin of an empty sequence"
GridError == "ValueError: Energy grid is different from grid on which transitions evaluated"

\* the result of a method: the exception it raised ("none" if it returned)
\* and the fields it has assigned by then
Raised(r) == r.err # "none"

\* ------------------------------------------- init_ionization_energies
\* [s for s in self.states if s.Z == Z]
Z_states(sts, Z) == SelectSeq(sts, LAMBDA s : s.Z = Z)

\* np.argmin: the first position (from 1) of the smallest element
argmin(xs) ==
    CHOOSE i \in 1..Len(xs) :
        /\ \A j \in 1..Len(xs) : xs[i] <= xs[j]
        /\ \A j \in 1..(i - 1) : xs[j] > xs[i]

\* gs = Z_states[np.argmin(energies)]
gs(sts, Z) ==
    LET zs == Z_states(sts, Z)
    IN zs[argmin([k \in 1..Len(zs) |-> zs[k].energy])]

\* gs_pos[Z]: the list index (from 0) of the first state that equals gs
gs_pos(sts, Z) ==
    (CHOOSE i \in 1..Len(sts) :
        /\ equals(sts[i], gs(sts, Z))
        /\ \A j \in 1..(i - 1) : ~equals(sts[j], gs(sts, Z))) - 1

\* gs_energies[Z]
gs_energies(sts, Z) == gs(sts, Z).energy

\* the ionization energy assigned to a state (lines 223-227)
iz_energy(sts, numZ, s) ==
    IF s.Z < numZ - 1 THEN gs_energies(sts, s.Z + 1) - s.energy ELSE 0

init_ionization_energies(sts, numZ) ==
    IF \E Z \in 0..(numZ - 1) : Z_states(sts, Z) = <<>>
    THEN \* np.argmin of an empty list
         [err |-> ArgminError, states |-> sts]
    ELSE [err |-> "none",
          states |->
            [i \in 1..Len(sts) |->
                [sts[i] EXCEPT
                    !.ground = (i - 1) \in {gs_pos(sts, Z) : Z \in 0..(numZ - 1)},
                    !.iz_energy = iz_energy(sts, numZ, sts[i]),
                    !.energy_from_gs =
                        sts[i].energy - gs_energies(sts, sts[i].Z)]]]

\* -------------------------------------------------------- init_states
\* lines 183-187: one State per catalog level, id = its place in the catalog;
\* a level is a pair <<Z, energy>>
load_levels(levels_dict) ==
    [i \in 1..Len(levels_dict) |->
        State(i - 1, levels_dict[i][1], levels_dict[i][2])]

\* lines 189-194: keep only user-specified states
keep_user_states(sts, sids) ==
    IF IsNotNone(sids)
    THEN Compact(sts, {i \in 1..Len(sts) : ~PyIn(sts[i].id, sids)})
    ELSE sts

\* init_states, with init_ionization_energies which it ends by calling
init_states(levels_dict, sids, numZ) ==
    LET kept == keep_user_states(load_levels(levels_dict), sids)
        r == init_ionization_energies(kept, numZ)
    IN [err |-> r.err, states |-> r.states, tot_states |-> Len(kept)]

\* --------------------------------------------------- init_transitions
\* the transition types of the catalog the model draws from
TransTypes == {"excitation", "emission"}

\* lines 275-294: the catalog entries that become transition objects.  Every
\* process flag is saved by __init__ as a one-element tuple, so each
\* `and self.<process>` test holds.
build_transitions(trans_dict, sids) ==
    Compact(trans_dict,
            {i \in 1..Len(trans_dict) :
                IsNotNone(sids)
                /\ (~PyIn(trans_dict[i].from_id, sids)
                    \/ ~PyIn(trans_dict[i].to_id, sids))})

\* lines 300-318: the statistical weight ratios look both endpoints of every
\* excitation and ionization transition up in id2pos, a KeyError when a state
\* is missing
inverse_data_raises(sts, trs) ==
    \E i \in 1..Len(trs) :
        /\ trs[i].type \in {"excitation", "ionization"}
        /\ \/ trs[i].from_id \notin {sts[k].id : k \in 1..Len(sts)}
           \/ trs[i].to_id \notin {sts[k].id : k \in 1..Len(sts)}

\* ---------------------------------------- state_and_transition_checks
\* the grid comparison without np.abs
grid_mismatch_signed(Egrid, trans_Egrid) ==
    Max({Egrid[k] - trans_Egrid[k] : k \in 1..Len(Egrid)}) > GridTol

\* np.max(np.abs(Egrid - trans_Egrid)) > 1e-5
grid_mismatch(Egrid, trans_Egrid) ==
    Max({Abs(Egrid[k] - trans_Egrid[k]) : k \in 1..Len(Egrid)}) > GridTol

\* core.get_associated_transitions: the places of the transitions that have
\* the state as an endpoint
get_associated_transitions(id, from_ids, to_ids) ==
    {k \in 1..Len(from_ids) : from_ids[k] = id \/ to_ids[k] = id}

\* lines 341-353: the list without its orphaned states
remove_orphaned_states(sts, trs) ==
    Compact(sts,
            {i \in 1..Len(sts) :
                get_associated_transitions(
                    sts[i].id,
                    [k \in 1..Len(trs) |-> trs[k].from_id],
                    [k \in 1..Len(trs) |-> trs[k].to_id]) = {}})

\* lines 355-362: the list without the states above the ionization energy,
\* when self.autoionization is False
remove_autoionizing_states(sts, autoion) ==
    IF IsFalse(autoion)
    THEN Compact(sts, {i \in 1..Len(sts) : sts[i].iz_energy < 0})
    ELSE sts

\* the orphaned-transition check testing from_id alone
remove_orphaned_transitions_from_only(sts, trs) ==
    Compact(trs,
            {i \in 1..Len(trs) :
                trs[i].from_id \notin {sts[k].id : k \in 1..Len(sts)}})

\* lines 364-369: the list without its orphaned transitions
remove_orphaned_transitions(sts, trs) ==
    Compact(trs,
            {i \in 1..Len(trs) :
                \/ trs[i].from_id \notin {sts[k].id : k \in 1..Len(sts)}
                \/ trs[i].to_id \notin {sts[k].id : k \in 1..Len(sts)}})

state_and_transition_checks(sts, trs, tot, autoion, Egrid, trans_Egrid) ==
    IF grid_mismatch(Egrid, trans_Egrid)
    THEN [err |-> GridError, states |-> sts, transitions |-> trs,
          tot_states |-> tot]
    ELSE LET s2 == remove_orphaned_states(sts, trs)
             s3 == remove_autoionizing_states(s2, autoion)
         IN [err |-> "none",
             states |-> s3,
             transitions |-> remove_orphaned_transitions(s3, trs),
             tot_states |-> tot - (Len(sts) - Len(s2)) - (Len(s2) - Len(s3))]

\* init_transitions from line 296 on: the built list is stored, the inverse
\* data are attached and the checks run
init_transitions(sts, trs, tot, autoion, Egrid, trans_Egrid) ==
    IF inverse_data_raises(sts, trs)
    THEN [err |-> "KeyError", states |-> sts, transitions |-> trs,
          tot_states |-> tot]
    ELSE state_and_transition_checks(sts, trs, tot, autoion, Egrid, trans_Egrid)

\* ------------------------------------------------- Position Indexer
set_state_positions(sts) ==
    [i \in 1..Len(sts) |-> [sts[i] EXCEPT !.pos = i - 1]]

\* id2pos[id]: the list index (from 0) of the last state with that id
id2pos(sts, id) ==
    (CHOOSE i \in 1..Len(sts) :
        /\ sts[i].id = id
        /\ \A j \in (i + 1)..Len(sts) : sts[j].id # id) - 1

set_transition_positions(sts, trs) ==
    IF \E i \in 1..Len(trs) :
          \/ trs[i].from_id \notin {sts[k].id : k \in 1..Len(sts)}
          \/ trs[i].to_id \notin {sts[k].id : k \in 1..Len(sts)}
    THEN [err |-> "KeyError", transitions |-> trs]
    ELSE [err |-> "none",
          transitions |->
            [i \in 1..Len(trs) |->
                [trs[i] EXCEPT !.from_pos = id2pos(sts, trs[i].from_id),
                               !.to_pos = id2pos(sts, trs[i].to_id)]]]

\* ---------------------------------------------------------- init_dens
\* A density is a number (in units of 1e17 when it is a product
\* frac_imp_dens * ne, else the plain number), or the equilibrium density of
\* one state at one sample, a value of core.saha_dist and
\* core.boltzmann_dist that the model leaves uninterpreted, times a factor.
Num(n) == [kind |-> "num", of |-> -1, sample |-> 0, times |-> n]
FracNe(n) == [kind |-> "frac_ne", of |-> -1, sample |-> 0, times |-> n]
Eq(id, i) == [kind |-> "eq", of |-> id, sample |-> i, times |-> 1]
EqTimesFracNe(id, i, n) ==
    [kind |-> "eq_frac_ne", of |-> id, sample |-> i, times |-> n]

\* np.zeros((len(ne), self.tot_states))
zeros(rows, cols) == [i \in 1..rows |-> [p \in 1..cols |-> Num(0)]]

\* post_processing.gather_states: the states of one ionization stage
gather_states(sts, Z) == SelectSeq(sts, LAMBDA s : s.Z = Z)

\* lines 388-422: the Saha-Boltzmann densities; every state of a stage
\* 0..num_Z-1 gets its column, the column of its pos
saha_boltzmann_dens(sts, tot, numZ, fixed, ne) ==
    [i \in 1..Len(ne) |->
        [p \in 1..tot |->
            IF p <= Len(sts) /\ sts[p].Z \in 0..(numZ - 1)
            THEN IF Truthy(fixed)
                 THEN EqTimesFracNe(sts[p].id, i, FracImpDens * ne[i])
                 ELSE Eq(sts[p].id, i)
            ELSE Num(0)]]

\* lines 423-434: the first column alone is set
first_state_dens(tot, fixed, ne) ==
    [i \in 1..Len(ne) |->
        [p \in 1..tot |->
            IF p = 1
            THEN IF Truthy(fixed) THEN FracNe(FracImpDens * ne[i]) ELSE Num(1)
            ELSE Num(0)]]

init_dens(sts, tot, numZ, saha, fixed, ne) ==
    IF Truthy(saha)
    THEN IF Len(sts) > tot
         THEN \* a pos beyond the last column
              [err |-> "IndexError", states |-> set_state_positions(sts),
               dens |-> zeros(Len(ne), tot)]
         ELSE [err |-> "none", states |-> set_state_positions(sts),
               dens |-> saha_boltzmann_dens(sts, tot, numZ, fixed, ne)]
    ELSE IF tot = 0
         THEN \* column 0 of an array with no columns
              [err |-> "IndexError", states |-> sts,
               dens |-> zeros(Len(ne), tot)]
         ELSE [err |-> "none", states |-> sts,
               dens |-> first_state_dens(tot, fixed, ne)]

\* -------------------------------------------------- reorder_PQ_states
\* [s for s in self.states if s.ground is True]
ground_states(sts) == SelectSeq(sts, LAMBDA s : s.ground = TRUE)

\* the secondary states taken as every state
other_states_all(sts) == sts

\* [s for s in self.states if s.ground is False]
other_states(sts) == SelectSeq(sts, LAMBDA s : s.ground = FALSE)

\* reorder_PQ_states without its final re-indexing
reorder_PQ_states_stale(sts, trs, numP, numQ, P_states) ==
    [err |-> "none",
     states |-> IF P_states = "ground"
                THEN ground_states(sts) \o other_states(sts)
                ELSE sts,
     transitions |-> trs,
     num_P_states |-> IF P_states = "ground"
                      THEN Len(ground_states(sts)) ELSE numP,
     num_Q_states |-> IF P_states = "ground"
                      THEN Len(other_states(sts)) ELSE numQ]

reorder_PQ_states(sts, trs, numP, numQ, P_states) ==
    LET new == IF P_states = "ground"
               THEN ground_states(sts) \o other_states(sts)
               ELSE sts
        tp == set_transition_positions(new, trs)
    IN [err |-> tp.err,
        states |-> set_state_positions(new),
        transitions |-> tp.transitions,
        num_P_states |-> IF P_states = "ground"
                         THEN Len(ground_states(sts)) ELSE numP,
        num_Q_states |-> IF P_states = "ground"
                         THEN Len(other_states(sts)) ELSE numQ]

\* ------------------------------------------------------------- inputs
\* catalogs of levels <<Z, energy>> of an element with numZ stages
Catalogs(numZ) ==
    UNION {[1..n -> (0..(numZ - 1)) \X (0..MaxEnergy)] : n \in 0..MaxStates}

\* catalogs of transitions between level ids 0..MaxStates-1
TransRecords ==
    {tr \in {Trans(t, a, b) : t \in TransTypes, a \in 0..(MaxStates - 1),
                              b \in 0..(MaxStates - 1)} :
        tr.from_id # tr.to_id}

TransLists == UNION {[1..n -> TransRecords] : n \in 0..MaxTrans}

\* the grid of the transition catalog, and simulation grids that differ from
\* it at one point, by nothing, by the tolerance or by more
trans_Egrid == [k \in 1..GridLen |-> 0]
Egrids ==
    {[k \in 1..GridLen |-> IF k = at THEN d ELSE 0] :
        at \in 1..GridLen, d \in {-(GridTol + 1), 0, GridTol, GridTol + 1}}

\* electron density profiles: 1e19, 2e19, ...
NeProfiles == {[k \in 1..NumSamples |-> k]}

\* the state_ids argument: None, or a list of ids, some of no catalog level
StateIdArgs == {PyNone} \cup {PyList(S) : S \in SUBSET (0..MaxStates)}

\* ------------------------------------------------------------ actions
\* lines 93-116: the settings as __init__ saves them
Settings ==
    /\ err = "none"
    /\ name \in Names
    /\ num_Z = get_element_data(name)
    /\ autoionization \in {PyTuple1(PyBool(b)) : b \in BOOLEAN}
    /\ saha_boltzmann_init \in {PyTuple1(PyBool(b)) : b \in BOOLEAN}
    /\ fixed_fraction_init \in {PyTuple1(PyBool(b)) : b \in BOOLEAN}
    /\ transitions = <<>>
    /\ dens = <<>>
    /\ num_P_states = -1
    /\ num_Q_states = -1

\* The object at line 196, the state list loaded and filtered: the levels the
\* filter kept are an input.
Init ==
    /\ Settings
    /\ pc = "init_ionization_energies"
    /\ state_ids = PyTuple1(PyNone)
    /\ states \in {load_levels(l) : l \in Catalogs(num_Z)}
    /\ tot_states = Len(states)

\* An exception leaves __init__: the caller gets no object, and the one under
\* construction is dropped with all it holds.
Fail(e) ==
    /\ pc' = "failed"
    /\ err' = e
    /\ states' = <<>>
    /\ transitions' = <<>>
    /\ tot_states' = 0
    /\ dens' = <<>>
    /\ UNCHANGED <<name, num_Z, state_ids, autoionization, saha_boltzmann_init,
                   fixed_fraction_init, num_P_states, num_Q_states>>

\* init_ionization_energies, called at line 198
InitIonizationEnergies ==
    /\ pc = "init_ionization_energies"
    /\ LET r == init_ionization_energies(states, num_Z)
       IN IF Raised(r) THEN Fail(r.err)
          ELSE /\ pc' = "init_transitions"
               /\ states' = r.states
               /\ UNCHANGED <<err, name, num_Z, state_ids, autoionization,
                              saha_boltzmann_init, fixed_fraction_init,
                              tot_states, transitions, dens, num_P_states,
                              num_Q_states>>

\* init_transitions up to line 318, called at line 120: the list built at
\* line 296 is an input
InitTransitions ==
    /\ pc = "init_transitions"
    /\ \E trs \in TransLists :
         IF inverse_data_raises(states, trs) THEN Fail("KeyError")
         ELSE /\ pc' = "state_and_transition_checks"
              /\ transitions' = trs
              /\ UNCHANGED <<err, name, num_Z, state_ids, autoionization,
                             saha_boltzmann_init, fixed_fraction_init, states,
                             tot_states, dens, num_P_states, num_Q_states>>

\* state_and_transition_checks, called at line 322 with the simulation's
\* energy grid and the catalog's
StateAndTransitionChecksWith(Egrid) ==
    /\ pc = "state_and_transition_checks"
    /\ LET r == state_and_transition_checks(states, transitions, tot_states,
                                            autoionization, Egrid, trans_Egrid)
       IN IF Raised(r) THEN Fail(r.err)
          ELSE /\ pc' = "init_dens"
               /\ states' = r.states
               /\ transitions' = r.transitions
               /\ tot_states' = r.tot_states
               /\ UNCHANGED <<err, name, num_Z, state_ids, autoionization,
                              saha_boltzmann_init, fixed_fraction_init, dens,
                              num_P_states, num_Q_states>>

StateAndTransitionChecks == \E Egrid \in Egrids : StateAndTransitionChecksWith(Egrid)

\* init_dens, called at line 122
InitDens ==
    /\ pc = "init_dens"
    /\ \E ne \in NeProfiles :
         LET r == init_dens(states, tot_states, num_Z, saha_boltzmann_init,
                            fixed_fraction_init, ne)
         IN IF Raised(r) THEN Fail(r.err)
            ELSE /\ pc' = "set_positions"
                 /\ states' = r.states
                 /\ dens' = r.dens
                 /\ UNCHANGED <<err, name, num_Z, state_ids, autoionization,
                                saha_boltzmann_init, fixed_fraction_init,
                                tot_states, transitions, num_P_states,
                                num_Q_states>>

\* lines 124-125: set_state_positions, then set_transition_positions; the
\* constructor returns
SetPositions ==
    /\ pc = "set_positions"
    /\ LET r == set_transition_positions(states, transitions)
       IN IF Raised(r) THEN Fail(r.err)
          ELSE /\ pc' = "done"
               /\ states' = set_state_positions(states)
               /\ transitions' = r.transitions
               /\ UNCHANGED <<err, name, num_Z, state_ids, autoionization,
                              saha_boltzmann_init, fixed_fraction_init,
                              tot_states, dens, num_P_states, num_Q_states>>

\* reorder_PQ_states(P_states), called on the constructed object
ReorderPQStatesWith(P_states) ==
    /\ pc = "done"
    /\ LET r == reorder_PQ_states(states, transitions, num_P_states,
                                  num_Q_states, P_states)
       IN /\ pc' = IF Raised(r) THEN "failed" ELSE "done"
          /\ err' = r.err
          /\ states' = r.states
          /\ transitions' = r.transitions
          /\ num_P_states' = r.num_P_states
          /\ num_Q_states' = r.num_Q_states
    /\ UNCHANGED <<name, num_Z, state_ids, autoionization, saha_boltzmann_init,
                   fixed_fraction_init, tot_states, dens>>

ReorderPQStates == \E P_states \in {"ground", "all"} : ReorderPQStatesWith(P_states)

Next ==
    \/ InitIonizationEnergies
    \/ InitTransitions
    \/ StateAndTransitionChecks
    \/ InitDens
    \/ SetPositions
    \/ ReorderPQStates

Spec == Init /\ [][Next]_vars

\* ------------------------------------------------------- the constructor
\* Impurity(...) entered: the settings are saved, no catalog is read yet
InitNew ==
    /\ Settings
    /\ pc = "new"
    /\ state_ids \in {PyTuple1(a) : a \in StateIdArgs}
    /\ states = <<>>
    /\ tot_states = 0

\* lines 116-125, the whole of __init__ after the settings are saved: the
\* two catalogs read, the energy grid and the density profile are inputs
Construct ==
    /\ pc = "new"
    /\ \E levels_dict \in Catalogs(num_Z) :
         LET r1 == init_states(levels_dict, state_ids, num_Z)
         IN IF Raised(r1) THEN Fail(r1.err)
            ELSE \E trans_dict \in TransLists, Egrid \in Egrids, ne \in NeProfiles :
              LET r2 == init_transitions(
                            r1.states, build_transitions(trans_dict, state_ids),
                            r1.tot_states, autoionization, Egrid, trans_Egrid)
              IN IF Raised(r2) THEN Fail(r2.err)
                 ELSE LET r3 == init_dens(r2.states, r2.tot_states, num_Z,
                                          saha_boltzmann_init,
                                          fixed_fraction_init, ne)
                      IN IF Raised(r3) THEN Fail(r3.err)
                         ELSE LET r4 == set_transition_positions(
                                            r3.states, r2.transitions)
                              IN IF Raised(r4) THEN Fail(r4.err)
                                 ELSE /\ pc' = "done"
                                      /\ states' = set_state_positions(r3.states)
                                      /\ transitions' = r4.transitions
                                      /\ tot_states' = r2.tot_states
                                      /\ dens' = r3.dens
                                      /\ UNCHANGED <<err, name, num_Z, state_ids,
                                                     autoionization,
                                                     saha_boltzmann_init,
                                                     fixed_fraction_init,
                                                     num_P_states, num_Q_states>>

SpecConstruct == InitNew /\ [][Construct]_vars

\* ------------------------------------------------------------- claims
StateIds == {states[i].id : i \in 1..Len(states)}

\* C1: once the constructor has returned, and after every reorder_PQ_states
\* call, each state's pos is its index in the state list, tot_states is the
\* length of the list, and each transition's from_pos and to_pos are the pos
\* of the states whose ids are its from_id and to_id.
C1_PositionsConsistent ==
    pc = "done" =>
        /\ tot_states = Len(states)
        /\ \A i \in 1..Len(states) : states[i].pos = i - 1
        /\ {states[i].pos : i \in 1..Len(states)} = 0..(tot_states - 1)
        /\ \A k \in 1..Len(transitions) :
             /\ \E i \in 1..Len(states) :
                  /\ states[i].id = transitions[k].from_id
                  /\ states[i].pos = transitions[k].from_pos
             /\ \E i \in 1..Len(states) :
                  /\ states[i].id = transitions[k].to_id
                  /\ states[i].pos = transitions[k].to_pos

\* a reordered model in which a ground state was moved ahead of a state
\* listed before it, with transitions to re-index
C1_Witness ==
    /\ pc = "done"
    /\ num_P_states >= 1
    /\ num_Q_states >= 1
    /\ Len(transitions) >= 1
    /\ \E i \in 1..(Len(states) - 1) : states[i].id > states[i + 1].id

\* C2: after state_and_transition_checks has returned, every remaining
\* transition has both from_id and to_id among the ids of the remaining
\* states.
C2_TransitionEndpointsSurvive ==
    pc = "init_dens" =>
        \A k \in 1..Len(transitions) :
            /\ transitions[k].from_id \in StateIds
            /\ transitions[k].to_id \in StateIds

\* the checks have removed state 0 and left transitions
C2_Witness ==
    /\ pc = "init_dens"
    /\ Len(transitions) >= 1
    /\ Len(states) >= 2
    /\ 0 \notin StateIds

\* the argument passed for a setting that __init__ saved in a tuple
Arg(setting) == setting.val.val

\* the transitions that have the state id as an endpoint
Touching(id) ==
    {k \in 1..Len(transitions) :
        transitions[k].from_id = id \/ transitions[k].to_id = id}

NoPos(s) == [s EXCEPT !.pos = -1]

\* what identifies a transition
Key(t) == <<t.type, t.from_id, t.to_id>>

\* the state list after the step is the one before it, stably partitioned
\* into ground states and the rest
StablePartition ==
    /\ Len(states') = Len(states)
    /\ num_P_states' + num_Q_states' = tot_states
    /\ num_P_states' + num_Q_states' = Len(states)
    /\ \A j \in 1..Len(states') : states'[j].ground <=> j <= num_P_states'
    /\ \A i \in 1..Len(states) :
         Cardinality({j \in 1..Len(states') :
                         NoPos(states'[j]) = NoPos(states[i])}) = 1
    /\ \A i1, i2 \in 1..Len(states) :
         (i1 < i2 /\ states[i1].ground = states[i2].ground) =>
             \E j1, j2 \in 1..Len(states') :
                 /\ j1 < j2
                 /\ states'[j1].id = states[i1].id
                 /\ states'[j2].id = states[i2].id
    /\ Len(transitions') = Len(transitions)
    /\ {Key(transitions'[k]) : k \in 1..Len(transitions')}
         = {Key(transitions[k]) : k \in 1..Len(transitions)}

C9_EmptySelectionTolerated ==
    (/\ pc # "new"
     /\ state_ids.val.type = "list"
     /\ Arg(state_ids) # {}
     /\ Arg(state_ids) \cap (0..(MaxStates - 1)) = {}) =>
        /\ pc = "done"
        /\ err = "none"
        /\ tot_states = 0
        /\ states = <<>>

====
